---------------------------- MODULE Spec2Model ----------------------------
(***************************************************************************)
(* Model of ci_bot.py: the build-log progress extractor, the progress      *)
(* poller, the upload dispatcher (rclone first, GoFile as fallback), the   *)
(* ROM archive discovery and the main run that ties them together.         *)
(*                                                                         *)
(* Text is modelled as a sequence of one-character strings, so that the    *)
(* regular expression, the file-name arithmetic and the glob patterns are  *)
(* computed on characters as the Python code computes them.                *)
(***************************************************************************)
EXTENDS Integers, Sequences, FiniteSets, TLC

\* ------------------------------------------------------------------------
\* Bounds of the model
\* ------------------------------------------------------------------------

\* Largest number of lines of a build log drawn for the progress extractor.
MaxLines == 3

\* Largest number of files of an output directory drawn for ROM discovery.
MaxFiles == 2

\* Modification times of those files are 1..MaxMTime.
MaxMTime == 2

\* Highest version of a file name that the remote listing may hold.
MaxVersion == 2

\* Largest number of lines the build child writes to the log in a run.
MaxLog == 2

\* Largest number of boot images the build leaves in the output directory.
MaxBootImages == 1

\* Largest number of SIGINTs delivered in a run.
MaxInterrupts == 1

\* ------------------------------------------------------------------------
\* Text helpers
\* ------------------------------------------------------------------------

Digits == {"0", "1", "2", "3", "4", "5", "6", "7", "8", "9"}

\* The value None of the Python code.
None == <<"<None>">>

\* Length of the longest run of digits of s that starts at position i
\* (0 when s[i] is no digit): what a greedy \d+ consumes.
RECURSIVE DigitRun(_, _)
DigitRun(s, i) ==
    IF i > Len(s) \/ s[i] \notin Digits THEN 0 ELSE 1 + DigitRun(s, i + 1)

StartsWith(s, prefix) ==
    Len(s) >= Len(prefix) /\ SubSeq(s, 1, Len(prefix)) = prefix

EndsWith(s, suffix) ==
    Len(s) >= Len(suffix) /\ SubSeq(s, Len(s) - Len(suffix) + 1, Len(s)) = suffix

\* `sub in s`
Contains(s, sub) ==
    \E i \in 1..(Len(s) - Len(sub) + 1) : SubSeq(s, i, i + Len(sub) - 1) = sub

UpperCase ==
    <<"A","B","C","D","E","F","G","H","I","J","K","L","M",
      "N","O","P","Q","R","S","T","U","V","W","X","Y","Z">>

LowerCase ==
    <<"a","b","c","d","e","f","g","h","i","j","k","l","m",
      "n","o","p","q","r","s","t","u","v","w","x","y","z">>

\* str.lower()
Lower(s) ==
    [i \in 1..Len(s) |->
        IF \E k \in 1..26 : UpperCase[k] = s[i]
        THEN LowerCase[CHOOSE k \in 1..26 : UpperCase[k] = s[i]]
        ELSE s[i]]

\* ------------------------------------------------------------------------
\* fetch_progress: re.search(r'(\d+)% (\d+/\d+)', line) over reversed(lines)
\* ------------------------------------------------------------------------

\* Whether the pattern matches with its first character at position i.
\* \d+ is greedy and the character that follows a group is no digit, so
\* each group is the maximal run of digits.
MatchAt(line, i) ==
    LET n1 == DigitRun(line, i)
        j  == i + n1
        n2 == DigitRun(line, j + 2)
        k  == j + 2 + n2
        n3 == DigitRun(line, k + 1)
    IN  /\ n1 > 0
        /\ j + 1 <= Len(line)
        /\ line[j] = "%"
        /\ line[j + 1] = " "
        /\ n2 > 0
        /\ k <= Len(line)
        /\ line[k] = "/"
        /\ n3 > 0

\* re.search returns the leftmost match, or no match.
Matches(line) == \E i \in 1..Len(line) : MatchAt(line, i)

MatchStart(line) ==
    CHOOSE i \in 1..Len(line) :
        MatchAt(line, i) /\ \A h \in 1..(i - 1) : ~MatchAt(line, h)

\* f"{match.group(1)}% ({match.group(2)})"
Snapshot(line) ==
    LET i  == MatchStart(line)
        n1 == DigitRun(line, i)
        j  == i + n1
        n2 == DigitRun(line, j + 2)
        k  == j + 2 + n2
        n3 == DigitRun(line, k + 1)
    IN  SubSeq(line, i, j - 1) \o <<"%", " ", "(">>
            \o SubSeq(line, j + 2, k + n3) \o <<")">>

\* "Initializing..."
SentinelAbsent ==
    <<"I","n","i","t","i","a","l","i","z","i","n","g",".",".",".">>

\* "Initializing the build system..."
SentinelNoMatch ==
    <<"I","n","i","t","i","a","l","i","z","i","n","g"," ","t","h","e"," ",
      "b","u","i","l","d"," ","s","y","s","t","e","m",".",".",".">>

\* Mutant of ScanReversed: the scan runs from the start of the file, so the
\* first matching line wins.
RECURSIVE ScanForward(_, _)
ScanForward(lines, n) ==
    LET i == Len(lines) - n + 1
    IN  IF n = 0 THEN SentinelNoMatch
        ELSE IF Matches(lines[i]) THEN Snapshot(lines[i])
        ELSE ScanForward(lines, n - 1)

\* for line in reversed(lines): the first line, from the end, that matches.
RECURSIVE ScanReversed(_, _)
ScanReversed(lines, n) ==
    IF n = 0 THEN SentinelNoMatch
    ELSE IF Matches(lines[n]) THEN Snapshot(lines[n])
    ELSE ScanReversed(lines, n - 1)

\* Mutant of fetch_progress: one sentinel for every case without progress.
fetch_progress_one_sentinel(log, readFails) ==
    IF ~log.exists \/ readFails THEN SentinelAbsent
    ELSE IF \E i \in 1..Len(log.lines) : Matches(log.lines[i])
         THEN ScanReversed(log.lines, Len(log.lines))
         ELSE SentinelAbsent

\* fetch_progress() on a build log file `log` ([exists, lines]); readFails
\* is the outcome of open()/readlines(): an exception there is swallowed by
\* the bare except.
fetch_progress(log, readFails) ==
    IF ~log.exists THEN SentinelAbsent
    ELSE IF readFails THEN SentinelAbsent
    ELSE ScanReversed(log.lines, Len(log.lines))


\* ------------------------------------------------------------------------
\* find_rom_zip
\* ------------------------------------------------------------------------

DotZip == <<".","z","i","p">>

\* rom_patterns, each '<prefix>*.zip', in the order of the list.
rom_patterns ==
    << <<"a","x","i","o","n","-">>,
       <<"l","i","n","e","a","g","e","-">>,
       <<"v","o","l","t","a","g","e","-">>,
       <<"a","r","r","o","w","-">>,
       <<"e","v","o","l","u","t","i","o","n","-">> >>

\* Path(OUT_DIR).glob('<prefix>*.zip'): the prefix and the suffix do not
\* overlap, and the match is case-sensitive.
GlobMatch(prefix, name) ==
    /\ Len(name) >= Len(prefix) + Len(DotZip)
    /\ StartsWith(name, prefix)
    /\ EndsWith(name, DotZip)

\* 500 * 1024 * 1024
MinRomSize == 500 * 1024 * 1024

\* The files of one pattern that pass both filters.
RomCandidates(files, prefix) ==
    {f \in files :
        /\ GlobMatch(prefix, f.name)
        /\ ~Contains(Lower(f.name), <<"o","t","a">>)
        /\ ~Contains(Lower(f.name), <<"i","m","g">>)
        /\ f.size > MinRomSize}

\* max(files, key=st_mtime): among files of equal mtime the one the
\* directory listing yields first, which is any of them.
Newest(files) == {f.name : f \in {g \in files : \A h \in files : h.mtime <= g.mtime}}

\* The values find_rom_zip may return for the files of OUT_DIR: the newest
\* candidate of the first pattern, from pattern k on, that has any.
RECURSIVE FindFrom(_, _)
FindFrom(files, k) ==
    IF k > Len(rom_patterns) THEN {None}
    ELSE IF RomCandidates(files, rom_patterns[k]) # {}
         THEN Newest(RomCandidates(files, rom_patterns[k]))
         ELSE FindFrom(files, k + 1)

find_rom_zip(files) == FindFrom(files, 1)

\* File names of output directories.
NameAxionA   == <<"a","x","i","o","n","-","a",".","z","i","p">>
NameLineageA == <<"l","i","n","e","a","g","e","-","a",".","z","i","p">>
NameLineageB == <<"l","i","n","e","a","g","e","-","b",".","z","i","p">>
NameLineageOta == <<"l","i","n","e","a","g","e","-","O","t","a",".","z","i","p">>
NameArrowImg == <<"a","r","r","o","w","-","i","m","g",".","z","i","p">>
NameVoltageA == <<"v","o","l","t","a","g","e","-","a",".","z","i","p">>
NameEvolutionA == <<"e","v","o","l","u","t","i","o","n","-","a",".","z","i","p">>
NameOther    == <<"r","o","m",".","z","i","p">>

\* ------------------------------------------------------------------------
\* upload_rclone, upload_gofile, upload_file: values and names
\* ------------------------------------------------------------------------

\* `if url:` : neither None nor the empty string.
Truthy(x) == x # None /\ Len(x) > 0

DigitChars == <<"0", "1", "2", "3", "4", "5", "6", "7", "8", "9">>

\* str(version) of the f-string.
RECURSIVE IntToStr(_)
IntToStr(n) ==
    IF n < 10 THEN <<DigitChars[n + 1]>>
    ELSE IntToStr(n \div 10) \o <<DigitChars[(n % 10) + 1]>>

\* os.path.splitext of a base name: the extension starts at the last dot,
\* unless only dots precede it.
SplitExt(name) ==
    LET dots == {i \in 1..Len(name) : name[i] = "."}
        dot  == CHOOSE i \in dots : \A h \in dots : h <= i
    IN  IF dots # {} /\ \E i \in 1..(dot - 1) : name[i] # "."
        THEN <<SubSeq(name, 1, dot - 1), SubSeq(name, dot, Len(name))>>
        ELSE <<name, <<>> >>

\* Mutant of VersionedName: the counter is put after the extension.
VersionedNameAfterExt(original, version) ==
    original \o <<" ", "(">> \o IntToStr(version) \o <<")">>

\* f"{name_parts[0]} ({version}){name_parts[1]}"
VersionedName(original, version) ==
    SplitExt(original)[1] \o <<" ", "(">> \o IntToStr(version) \o <<")">>
        \o SplitExt(original)[2]

\* RCLONE_FOLDER as configured in the source: empty.
RCLONE_FOLDER == <<>>

\* base_path, for a remote name.
BasePath(remoteName) ==
    IF Truthy(RCLONE_FOLDER) THEN remoteName \o <<":">> \o RCLONE_FOLDER
    ELSE remoteName \o <<":">>

\* rclone_file_path = f'{base_path}/{file_name}'
RcloneFilePath(remoteName, file_name) ==
    BasePath(remoteName) \o <<"/">> \o file_name

Whitespace == {" ", "\n", "\t", "\r"}

\* str.strip()
RECURSIVE Strip(_)
Strip(s) ==
    IF s = <<>> THEN s
    ELSE IF s[1] \in Whitespace THEN Strip(Tail(s))
    ELSE IF s[Len(s)] \in Whitespace THEN Strip(SubSeq(s, 1, Len(s) - 1))
    ELSE s

\* "Upload failed"
UploadFailed == <<"U","p","l","o","a","d"," ","f","a","i","l","e","d">>

\* What `rclone link` can do: exit 0 with some output, exit non-zero, or
\* subprocess.run itself raising.
LinkUrl == <<"h","t","t","p",":","l">>

LinkOutcomes ==
    {[kind |-> "exit", rc |-> 0, stdout |-> LinkUrl \o <<"\n">>],
     [kind |-> "exit", rc |-> 0, stdout |-> <<"\n">>],
     [kind |-> "exit", rc |-> 1, stdout |-> <<>>],
     [kind |-> "raises", rc |-> 0, stdout |-> <<>>]}

\* The value upload_rclone returns after a transfer that exited 0.
LinkResult(o, remoteName, file_name) ==
    IF o.kind = "raises" THEN None
    ELSE IF o.rc = 0 THEN Strip(o.stdout)
    ELSE RcloneFilePath(remoteName, file_name)

\* result['data']['downloadPage'] of a GoFile upload that answered 'ok'.
GofileUrl == <<"h","t","t","p",":","g">>

\* What upload_gofile returns: the page, or None for a status other than
\* 'ok' and for any exception.
GofileResult(outcome) == IF outcome = "ok" THEN GofileUrl ELSE None

\* Mutant of UploadFileResult: a failed upload is reported as None.
UploadFileResultNone(url) == url

\* return url if url else "Upload failed"
UploadFileResult(url) == IF Truthy(url) THEN url ELSE UploadFailed

\* ------------------------------------------------------------------------
\* State
\* ------------------------------------------------------------------------

VARIABLES
    build_log,          \* the BUILD_LOG file: [exists, lines]
    fp,                 \* a call of fetch_progress: [called, readFails, result]
    out_dir,            \* the files of OUT_DIR: a set of [name, size, mtime]
    frz,                \* a call of find_rom_zip: [called, result]
    RCLONE_REMOTE,      \* the configured remote name, empty when not configured
    remote,             \* the names the remote listing reports as present
    up,                 \* a call of upload_file, see UpIdle
    pc,                 \* where main() is
    main,               \* locals of main(), see MainIdle
    build_message_id,   \* global: the status message, NoneId before it is sent
    use_banner,         \* global: the status message is a photo
    previous_progress,  \* global: the progress string of the last update
    build_process,      \* global: the build child, [state, returncode]
    error_log,          \* out/error.log: "absent", "empty" or "nonempty"
    monitor,            \* the monitor_progress thread: [pc, current_progress]
    call,               \* the notifier call the last step made, NoNotify if none
    exit_code,          \* NotExited, or the exit code of the process
    sigints,            \* SIGINTs handled so far
    temp_files          \* the generated images in ROOT_DIRECTORY: the set
                        \* of the contents it can have, see Unfinished

\* The run's variables but `call`, which every step sets.
quietVars ==
    <<pc, main, build_message_id, use_banner, previous_progress, build_process,
      error_log, monitor, exit_code, sigints, temp_files>>

runVars == <<quietVars, call>>

vars == <<build_log, fp, out_dir, frz, RCLONE_REMOTE, remote, up, runVars>>

\* A message identifier that is None.
NoneId == "None"

\* The identifiers the chat service hands out: one for each message a run
\* keeps the identifier of.
MsgIds == [syncing |-> "m1", send_photo |-> "m2", send_message |-> "m3"]

\* exit_code while the process runs.
NotExited == -1

NoProcess == [state |-> "none", returncode |-> 0]

\* No notifier call.
NoNotify ==
    [op |-> "none", id |-> NoneId, what |-> "none", text |-> <<>>, chat |-> "none"]

\* The step calls no notifier function.
Quiet == call' = NoNotify

MainIdle ==
    [sync_msg_id |-> NoneId, banner_file |-> FALSE, rom_zip |-> None,
     img |-> 0, shutdown |-> FALSE]

\* The images of generate_build_banner (lines 239, 219, 257) that the
\* cleanup loops name.
BannerPng == "build_banner.png"
RomLogoPng == "rom_logo.png"
LogoCirclePng == "logo_circle.png"

\* No generated image is in ROOT_DIRECTORY.
NoTempFiles == {{}}

\* generate_build_banner returned the banner: the other images are removed
\* (lines 314-316, 342-344).
Finished == {{BannerPng}}

MonitorIdle == [pc |-> "none", current_progress |-> <<>>, changed |-> FALSE]

\* The thread has ended, and its locals with it.
MonitorEnded == [pc |-> "done", current_progress |-> <<>>, changed |-> FALSE]

\* The globals as the module sets them (lines 53-56), main() not entered.
RunIdle ==
    /\ pc = "idle"
    /\ main = MainIdle
    /\ build_message_id = NoneId
    /\ use_banner = FALSE
    /\ previous_progress = <<>>
    /\ build_process = NoProcess
    /\ error_log = "absent"
    /\ monitor = MonitorIdle
    /\ call = NoNotify
    /\ exit_code = NotExited
    /\ sigints = 0
    /\ temp_files = NoTempFiles

\* upload_file and, inside it, upload_rclone: the position in the code and
\* the locals. trace lists the backends in the order they were attempted,
\* tried the names the listing was asked for, reported those it reported as
\* present, sent the base name handed to `rclone copy`, copy that
\* transfer's outcome, dup the local duplicate created.
UpIdle ==
    [pc |-> "idle", file_path |-> None, file_name |-> None, version |-> 0,
     upload_file |-> None, url |-> None, gofile |-> "none", result |-> None,
     trace |-> <<>>, tried |-> <<>>, reported |-> {}, sent |-> None,
     copy |-> "none", dup |-> None]

UploadIdle ==
    /\ RCLONE_REMOTE = <<>>
    /\ remote = {}
    /\ up = UpIdle

\* Lines of a build log, for the progress extractor.
LineA == <<"1","0","%"," ","1","/","2">>                    \* 10% 1/2
LineB == <<"["," ","5","5","%"," ","5","/","9"," ","x">>    \* [ 55% 5/9 x
LineC == <<"x">>                                            \* no progress
LineD == <<"1","0","%","1","/","2">>                        \* no blank
LineE == <<"7","%"," ","3","/">>                            \* no total
LineF == <<"1","%"," ","1","/","2"," ","7","%"," ","3","/","4">>
LineG == <<>>                                               \* empty line

LogLines == {LineA, LineB, LineC, LineD, LineE, LineF, LineG}

SeqsUpTo(S, n) == UNION {[1..m -> S] : m \in 0..n}

AbsentLog == [exists |-> FALSE, lines |-> <<>>]

LogFiles ==
    {AbsentLog} \cup {[exists |-> TRUE, lines |-> l] : l \in SeqsUpTo(LogLines, MaxLines)}

NoRomCall == [called |-> FALSE, result |-> None]

NoCall == [called |-> FALSE, readFails |-> FALSE, result |-> None]

\* ------------------------------------------------------------------------
\* upload_file, step by step
\* ------------------------------------------------------------------------

\* What the steps of an upload leave alone.
uploadFrame == <<build_log, fp, frz, RCLONE_REMOTE, quietVars>>

\* upload_file, lines 566-570: rclone first when RCLONE_REMOTE is set (then
\* upload_rclone starts: file_name = basename, version = 0), else GoFile.
UploadFileEnter ==
    /\ exit_code = NotExited
    /\ Quiet
    /\ up.pc = "start"
    /\ up' = IF Truthy(RCLONE_REMOTE)
             THEN [up EXCEPT !.pc = "rc_lsf", !.file_name = up.file_path,
                             !.version = 0, !.trace = Append(@, "rclone")]
             ELSE [up EXCEPT !.pc = "gofile"]
    /\ UNCHANGED <<uploadFrame, out_dir, remote>>

\* One turn of the `while True` loop, lines 500-515: `rclone lsf` for the
\* current name; a name reported as present moves on to the next version,
\* any other name is kept. subprocess.run raising ends upload_rclone with
\* None (line 562).
RcloneLsf ==
    /\ exit_code = NotExited
    /\ Quiet
    /\ up.pc = "rc_lsf"
    /\ \E raises \in BOOLEAN :
          up' = IF raises
                THEN [up EXCEPT !.pc = "rc_done", !.url = None]
                ELSE IF up.file_name \in remote
                THEN [up EXCEPT !.version = @ + 1,
                                !.file_name = VersionedName(up.file_path, up.version + 1),
                                !.tried = Append(@, up.file_name),
                                !.reported = @ \cup {up.file_name}]
                ELSE [up EXCEPT !.pc = "rc_dup",
                                !.tried = Append(@, up.file_name)]
    /\ UNCHANGED <<uploadFrame, out_dir, remote>>

\* Lines 518-526: a versioned name is uploaded from a copy of the local
\* file made under that name (shutil.copy2 keeps size and mtime).
RcloneDup ==
    /\ exit_code = NotExited
    /\ Quiet
    /\ up.pc = "rc_dup"
    /\ IF up.file_name # up.file_path
       THEN /\ up' = [up EXCEPT !.pc = "rc_copy", !.upload_file = up.file_name,
                                !.dup = up.file_name]
            /\ out_dir' = out_dir \cup
                  {[f EXCEPT !.name = up.file_name] : f \in {g \in out_dir : g.name = up.file_path}}
       ELSE /\ up' = [up EXCEPT !.pc = "rc_copy", !.upload_file = up.file_path]
            /\ UNCHANGED out_dir
    /\ UNCHANGED <<uploadFrame, remote>>

\* Lines 529-548: `rclone copy upload_file rclone_dest`. An exception
\* (Popen, reading the output) ends upload_rclone with None at line 562,
\* past the removal of the duplicate; otherwise the duplicate is removed,
\* and a non-zero exit returns None.
RcloneCopy ==
    /\ exit_code = NotExited
    /\ Quiet
    /\ up.pc = "rc_copy"
    /\ \E outcome \in {"ok", "fail", "raises"} :
          /\ up' = [up EXCEPT !.copy = outcome, !.sent = up.upload_file,
                              !.pc = IF outcome = "ok" THEN "rc_link" ELSE "rc_done",
                              !.url = None]
          /\ remote' = IF outcome = "ok" THEN remote \cup {up.upload_file} ELSE remote
          /\ out_dir' = IF outcome # "raises" /\ up.upload_file # up.file_path
                        THEN {f \in out_dir : f.name # up.upload_file}
                        ELSE out_dir
    /\ UNCHANGED uploadFrame

\* Lines 550-564: `rclone link` after a transfer that exited 0.
RcloneLink ==
    /\ exit_code = NotExited
    /\ Quiet
    /\ up.pc = "rc_link"
    /\ \E o \in LinkOutcomes :
          up' = [up EXCEPT !.pc = "rc_done",
                           !.url = LinkResult(o, RCLONE_REMOTE, up.file_name)]
    /\ UNCHANGED <<uploadFrame, out_dir, remote>>

\* upload_file, lines 571-572: `if url: return url`.
UploadFileAfterRclone ==
    /\ exit_code = NotExited
    /\ Quiet
    /\ up.pc = "rc_done"
    /\ up' = IF Truthy(up.url)
             THEN [up EXCEPT !.pc = "returned", !.result = up.url]
             ELSE [up EXCEPT !.pc = "gofile"]
    /\ UNCHANGED <<uploadFrame, out_dir, remote>>

\* upload_file, lines 575-576, with upload_gofile (442-475) inside.
UploadGofile ==
    /\ exit_code = NotExited
    /\ Quiet
    /\ up.pc = "gofile"
    /\ \E outcome \in {"ok", "not_ok", "raises"} :
          up' = [up EXCEPT !.pc = "returned", !.gofile = outcome,
                           !.trace = Append(@, "gofile"),
                           !.result = UploadFileResult(GofileResult(outcome))]
    /\ UNCHANGED <<uploadFrame, out_dir, remote>>

UploadStep ==
    \/ UploadFileEnter
    \/ RcloneLsf
    \/ RcloneDup
    \/ RcloneCopy
    \/ RcloneLink
    \/ UploadFileAfterRclone
    \/ UploadGofile

\* ------------------------------------------------------------------------
\* upload_file applied to any remote listing, with any outcome of each step
\* ------------------------------------------------------------------------

RemoteName == <<"g","d">>

FileX == <<"x",".","z","i","p">>
FileR == <<"r">>

UploadNames == {FileX, FileR}

\* The names the listing may report for a file: its versions up to
\* MaxVersion, and a name that looks like a version and is none.
Decoy(name) == SplitExt(name)[1] \o <<"(","1",")">> \o SplitExt(name)[2]

ListingPool(name) ==
    {name, Decoy(name)} \cup {VersionedName(name, v) : v \in 1..MaxVersion}

InitUpload ==
    /\ RCLONE_REMOTE \in {<<>>, RemoteName}
    /\ \E name \in UploadNames :
          /\ up = [UpIdle EXCEPT !.pc = "start", !.file_path = name]
          /\ remote \in SUBSET ListingPool(name)
          /\ out_dir = {[name |-> name, size |-> MinRomSize + 1, mtime |-> 1]}
    /\ build_log = AbsentLog
    /\ fp = NoCall
    /\ frz = NoRomCall
    /\ RunIdle

NextUpload == UploadStep

SpecUpload == InitUpload /\ [][NextUpload]_vars

\* ------------------------------------------------------------------------
\* The notifier
\* ------------------------------------------------------------------------

\* A send call that the chat service answered with 'ok' returns the new
\* message's identifier; any other answer, or an exception, returns None.
SentId(op, what, ok) ==
    IF ~ok THEN NoneId
    ELSE IF what = "syncing" THEN MsgIds.syncing
    ELSE MsgIds[op]

\* send_message / send_photo / send_file: the call, with what it returned.
Send(op, what, chat, ok) ==
    call' = [op |-> op, id |-> SentId(op, what, ok), what |-> what,
             text |-> <<>>, chat |-> chat]

\* Mutant of CONFIG_ERROR_CHATID: the logs of a failed build go to the chat
\* of the status message.
ErrorChatIsPrimary == "primary"

\* The chat the logs of a failed build are sent to (line 34); "primary" is
\* CONFIG_CHATID.
CONFIG_ERROR_CHATID == "error"

\* send_file: every caller drops the identifier it returns, so it is not
\* recorded.
SendFile(what, chat) ==
    call' = [op |-> "send_file", id |-> NoneId, what |-> what,
             text |-> <<>>, chat |-> chat]

\* edit_message / edit_photo_caption on message `id`: nothing is returned,
\* and a failure is only printed.
Edit(op, id, what, text) ==
    call' = [op |-> op, id |-> id, what |-> what, text |-> text,
             chat |-> "primary"]

\* Mutant of StatusEdit: an edit without a message identifier does not
\* return.
StatusEditNeedsId(what, text) ==
    /\ build_message_id # NoneId
    /\ Edit(IF use_banner THEN "edit_photo_caption" ELSE "edit_message",
            build_message_id, what, text)

\* `if use_banner: edit_photo_caption(build_message_id, ...)
\*  else: edit_message(build_message_id, ...)`
StatusEdit(what, text) ==
    Edit(IF use_banner THEN "edit_photo_caption" ELSE "edit_message",
         build_message_id, what, text)

\* ------------------------------------------------------------------------
\* main(), step by step
\* ------------------------------------------------------------------------

Alive == exit_code = NotExited

\* What generate_build_banner (lines 237-364) can have written when it
\* does not reach its return of the banner: nothing (`convert` is missing,
\* or the gradient fails); the banner alone (the text-only branch fails, or
\* an annotation of the logo branch fails at a moment when the other images
\* are gone); or a call of the logo branch fails after fetch_github_logo
\* saved the logo, after the circle, after the mask, or after the shadow was
\* written (lines 262-311). The run does not observe which.
Unfinished ==
    { {},
      {BannerPng},
      {BannerPng, RomLogoPng},
      {BannerPng, RomLogoPng, LogoCirclePng},
      {BannerPng, RomLogoPng, LogoCirclePng, "mask.png"},
      {BannerPng, RomLogoPng, LogoCirclePng, "mask.png", "logo_shadow.png"} }

\* The names the cleanup of handle_interrupt removes (line 617).
HandlerCleanup == {BannerPng, "github_avatar.png", "avatar_circle.png"}

\* The names the cleanup of main() removes (line 964).
MainCleanup == {BannerPng, RomLogoPng, LogoCirclePng}

\* The two cleanup loops (lines 616-620, 964-968): each name of the list
\* that exists is removed, whichever the images in the directory are.
RemoveTempFiles(tf, names) == {files \ names : files \in tf}

\* The process ends with exit code `code`: the daemon thread and the
\* locals of the call in progress end with it.
ProcessEnds(code) ==
    /\ exit_code' = code
    /\ up' = UpIdle
    /\ monitor' = IF monitor.pc = "none" THEN monitor ELSE MonitorEnded

fixedVars == <<fp, frz, RCLONE_REMOTE>>
fileVars == <<build_log, out_dir, error_log, temp_files>>
upVars == <<remote, up>>
statusVars == <<build_message_id, use_banner>>
pollVars == <<previous_progress, monitor>>
processVars == <<build_process, exit_code, sigints>>

\* Lines 637-640: the arguments are parsed and the handler is installed.
InstallHandler ==
    /\ Alive /\ pc = "init"
    /\ pc' = "detect"
    /\ Quiet
    /\ UNCHANGED <<fixedVars, fileVars, upVars, statusVars, pollVars,
                   processVars, main>>

\* Lines 642-714: ROM name and Android version are detected, the logs of
\* an earlier run are removed, and args.sync is read.
DetectAndCleanup ==
    /\ Alive /\ pc = "detect"
    /\ build_log' = AbsentLog
    /\ error_log' = "absent"
    /\ \E sync \in BOOLEAN : pc' = IF sync THEN "sync_send" ELSE "clean"
    /\ Quiet
    /\ UNCHANGED <<fixedVars, temp_files, out_dir, upVars, statusVars, pollVars,
                   processVars, main>>

\* Lines 716-720.
SyncSend ==
    /\ Alive /\ pc = "sync_send"
    /\ \E ok \in BOOLEAN :
          /\ Send("send_message", "syncing", "primary", ok)
          /\ main' = [main EXCEPT !.sync_msg_id = call'.id]
    /\ pc' = "sync_run"
    /\ UNCHANGED <<fixedVars, fileVars, upVars, statusVars, pollVars, processVars>>

\* Lines 722-727, inside `try`: `repo sync` with check=True, then the edit.
\* (sync_msg_id is not read after the edit and is dropped with it.)
SyncRun ==
    /\ Alive /\ pc = "sync_run"
    /\ \E ok \in BOOLEAN :
          IF ok
          THEN /\ Edit("edit_message", main.sync_msg_id, "synced", <<>>)
               /\ main' = [main EXCEPT !.sync_msg_id = NoneId]
               /\ pc' = "clean"
          ELSE /\ pc' = "sync_except"
               /\ Quiet
               /\ UNCHANGED main
    /\ UNCHANGED <<fixedVars, fileVars, upVars, statusVars, pollVars,
                   processVars>>

\* Lines 728-729: the bare `except:`.
SyncExcept ==
    /\ Alive /\ pc = "sync_except"
    /\ Edit("edit_message", main.sync_msg_id, "sync_failed", <<>>)
    /\ main' = [main EXCEPT !.sync_msg_id = NoneId]
    /\ pc' = "clean"
    /\ UNCHANGED <<fixedVars, fileVars, upVars, statusVars, pollVars,
                   processVars>>

\* Lines 732-734: `rm -rf out` when args.clean.
Clean ==
    /\ Alive /\ pc = "clean"
    /\ \E clean \in BOOLEAN :
          /\ out_dir' = IF clean THEN {} ELSE out_dir
          /\ error_log' = IF clean THEN "absent" ELSE error_log
    /\ pc' = "banner"
    /\ Quiet
    /\ UNCHANGED <<fixedVars, temp_files, build_log, upVars, statusVars, pollVars,
                   processVars, main>>

\* Mutant of NeedsTextMessage: the text message is sent in any case.
NeedsTextMessageAlways(banner_in_use) == TRUE

\* Line 756: `if not use_banner:`.
NeedsTextMessage(banner_in_use) == ~banner_in_use

\* Lines 737-740: generate_build_banner returns the file or None.
GenerateBanner ==
    /\ Alive /\ pc = "banner"
    /\ \E file \in BOOLEAN :
          /\ main' = [main EXCEPT !.banner_file = file]
          /\ temp_files' = IF file THEN Finished ELSE Unfinished
          /\ pc' = IF file THEN "send_photo"
                   ELSE IF NeedsTextMessage(use_banner) THEN "send_text"
                   ELSE "start_build"
    /\ Quiet
    /\ UNCHANGED <<fixedVars, build_log, out_dir, error_log, upVars,
                   statusVars, pollVars, processVars>>

\* Lines 741-756.
SendPhoto ==
    /\ Alive /\ pc = "send_photo"
    /\ \E ok \in BOOLEAN :
          /\ Send("send_photo", "building", "primary", ok)
          /\ build_message_id' = call'.id
          /\ use_banner' = ok
          /\ pc' = IF NeedsTextMessage(ok) THEN "send_text" ELSE "start_build"
    /\ UNCHANGED <<fixedVars, fileVars, upVars, pollVars, processVars, main>>

\* Lines 757-766.
SendText ==
    /\ Alive /\ pc = "send_text"
    /\ \E ok \in BOOLEAN :
          /\ Send("send_message", "building", "primary", ok)
          /\ build_message_id' = call'.id
    /\ pc' = "start_build"
    /\ UNCHANGED <<fixedVars, fileVars, upVars, use_banner, pollVars,
                   processVars, main>>

\* Lines 768-814: BUILD_LOG is opened for writing, the child is started
\* with its output in it, and the monitor thread is started. (The tail
\* thread only prints the log to the console and is left out.)
StartBuild ==
    /\ Alive /\ pc = "start_build"
    /\ build_log' = [exists |-> TRUE, lines |-> <<>>]
    /\ build_process' = [state |-> "running", returncode |-> 0]
    /\ monitor' = [monitor EXCEPT !.pc = "poll"]
    /\ pc' = "wait"
    /\ Quiet
    /\ UNCHANGED <<fixedVars, temp_files, out_dir, error_log, upVars, statusVars,
                   previous_progress, exit_code, sigints, main>>

\* Lines 817-823: build_process.wait(), then the two joins. A join with a
\* timeout returns whether or not the thread has ended, so main goes on
\* even when the monitor thread is still inside its edit. (A thread at the
\* loop test finds the child gone and ends, touching nothing main() can
\* see, so it is let end first.)
WaitAndJoin ==
    /\ Alive /\ pc = "wait"
    /\ build_process.state = "exited"
    /\ monitor.pc \in {"edit", "done"}
    /\ pc' = "judge"
    /\ Quiet
    /\ UNCHANGED <<fixedVars, fileVars, upVars, statusVars, pollVars,
                   processVars, main>>

\* Mutant of BuildFailed: the child's exit code decides.
BuildFailedByExitCode(log_state, returncode) == returncode # 0

\* Line 827: os.path.exists(error_log) and os.path.getsize(error_log) > 0.
BuildFailed(log_state, returncode) == log_state = "nonempty"

\* Lines 826-827 and 846, for any error log the build left.
Judge ==
    /\ Alive /\ pc = "judge"
    /\ \E log_state \in {"absent", "empty", "nonempty"} :
          /\ error_log' = log_state
          /\ pc' = IF BuildFailed(log_state, build_process.returncode)
                   THEN "fail_edit" ELSE "build_stats"
    /\ Quiet
    /\ UNCHANGED <<fixedVars, temp_files, build_log, out_dir, upVars, statusVars, pollVars,
                   processVars, main>>

\* Lines 829-840.
FailEdit ==
    /\ Alive /\ pc = "fail_edit"
    /\ StatusEdit("failed", <<>>)
    /\ pc' = "fail_send_err"
    /\ UNCHANGED <<fixedVars, fileVars, upVars, statusVars, pollVars,
                   processVars, main>>

\* Line 843.
FailSendErrorLog ==
    /\ Alive /\ pc = "fail_send_err"
    /\ SendFile("error_log", CONFIG_ERROR_CHATID)
    /\ pc' = "fail_send_log"
    /\ UNCHANGED <<fixedVars, fileVars, upVars, statusVars, pollVars,
                   processVars, main>>

\* Lines 844-845.
FailSendBuildLog ==
    /\ Alive /\ pc = "fail_send_log"
    /\ IF build_log.exists
       THEN SendFile("build_log", CONFIG_ERROR_CHATID)
       ELSE Quiet
    /\ pc' = "cleanup"
    /\ UNCHANGED <<fixedVars, fileVars, upVars, statusVars, pollVars,
                   processVars, main>>

\* Lines 848-866: the build statistics are read from BUILD_LOG inside
\* `try: ... except: pass`.
BuildStats ==
    /\ Alive /\ pc = "build_stats"
    /\ pc' = "find_rom"
    /\ Quiet
    /\ UNCHANGED <<fixedVars, fileVars, upVars, statusVars, pollVars,
                   processVars, main>>

\* The img_name list of line 928.
BootNames ==
    << <<"v","e","n","d","o","r","_","b","o","o","t",".","i","m","g">>,
       <<"b","o","o","t",".","i","m","g">>,
       <<"i","n","i","t","_","b","o","o","t",".","i","m","g">> >>

Exists(name) == \E f \in out_dir : f.name = name

RomFile == [name |-> NameLineageA, size |-> MinRomSize + 1, mtime |-> 1]

BootFile(k) == [name |-> BootNames[k], size |-> 1, mtime |-> 1]

\* What the build may leave in OUT_DIR: nothing, or a ROM archive with up
\* to MaxBootImages boot images.
RunDirectories ==
    {{}} \cup {{RomFile} \cup {BootFile(k) : k \in 1..n} : n \in 0..MaxBootImages}

\* Mutant of NoRomFound: main() goes on without a ROM archive.
NoRomFoundNever(r) == FALSE

\* Line 870: `if not rom_zip`.
NoRomFound(r) == r = None

\* Lines 869-892, for any artifacts the build left in OUT_DIR: without a
\* ROM archive main() returns.
FindRom ==
    /\ Alive /\ pc = "find_rom"
    /\ \E dir \in RunDirectories :
          /\ out_dir' = dir
          /\ \E r \in find_rom_zip(dir) :
                IF NoRomFound(r)
                THEN /\ pc' = "returned"
                     /\ ProcessEnds(0)
                     /\ UNCHANGED main
                ELSE /\ pc' = "upload_edit"
                     /\ main' = [main EXCEPT !.rom_zip = r]
                     /\ UNCHANGED <<exit_code, up, monitor>>
    /\ Quiet
    /\ UNCHANGED <<fixedVars, temp_files, build_log, error_log, remote,
                   statusVars, previous_progress, build_process, sigints>>

\* Lines 895-905.
UploadEdit ==
    /\ Alive /\ pc = "upload_edit"
    /\ StatusEdit("uploading", <<>>)
    /\ pc' = "upload_rom"
    /\ UNCHANGED <<fixedVars, fileVars, upVars, statusVars, pollVars,
                   processVars, main>>

\* What the remote holds when the first upload of a run lists it.
RunListings(name) == {{}, {name}}

\* Line 909: upload_file(rom_zip) is entered.
UploadRom ==
    /\ Alive /\ pc = "upload_rom"
    /\ up' = [UpIdle EXCEPT !.pc = "start", !.file_path = main.rom_zip]
    /\ remote' \in RunListings(main.rom_zip)
    /\ pc' = "uploading_rom"
    /\ Quiet
    /\ UNCHANGED <<fixedVars, fileVars, statusVars, pollVars, processVars, main>>

\* Line 909: upload_file has returned. (rom_url goes into the download
\* buttons of the success message and nowhere else; it is not kept.)
RomUploaded ==
    /\ Alive /\ pc = "uploading_rom" /\ up.pc = "returned"
    /\ UNCHANGED main
    /\ up' = UpIdle
    /\ pc' = "boot_check"
    /\ Quiet
    /\ UNCHANGED <<fixedVars, fileVars, remote, statusVars, pollVars,
                   processVars>>

\* Lines 912-926.
BootCheck ==
    /\ Alive /\ pc = "boot_check"
    /\ IF Exists(BootNames[1])
       THEN /\ StatusEdit("uploading_boot", <<>>)
            /\ main' = [main EXCEPT !.img = 1]
            /\ pc' = "boot_loop"
       ELSE /\ pc' = "success_edit"
            /\ Quiet
            /\ UNCHANGED main
    /\ UNCHANGED <<fixedVars, fileVars, upVars, statusVars, pollVars,
                   processVars>>

\* Lines 928-932: the next image name; upload_file is entered for one that
\* exists.
BootLoop ==
    /\ Alive /\ pc = "boot_loop"
    /\ IF main.img > Len(BootNames)
       THEN /\ pc' = "success_edit"
            /\ UNCHANGED <<main, up>>
       ELSE IF Exists(BootNames[main.img])
       THEN /\ up' = [UpIdle EXCEPT !.pc = "start", !.file_path = BootNames[main.img]]
            /\ pc' = "uploading_img"
            /\ UNCHANGED main
       ELSE /\ main' = [main EXCEPT !.img = @ + 1]
            /\ UNCHANGED <<pc, up>>
    /\ Quiet
    /\ UNCHANGED <<fixedVars, fileVars, remote, statusVars, pollVars,
                   processVars>>

\* Lines 932-933.
ImgUploaded ==
    /\ Alive /\ pc = "uploading_img" /\ up.pc = "returned"
    /\ main' = [main EXCEPT !.img = @ + 1]
    /\ up' = UpIdle
    /\ pc' = "boot_loop"
    /\ Quiet
    /\ UNCHANGED <<fixedVars, fileVars, remote, statusVars, pollVars,
                   processVars>>

\* Lines 936-956.
SuccessEdit ==
    /\ Alive /\ pc = "success_edit"
    /\ StatusEdit("success", <<>>)
    /\ pc' = "send_log"
    /\ UNCHANGED <<fixedVars, fileVars, upVars, statusVars, pollVars,
                   processVars, main>>

\* Lines 959-960.
SendLog ==
    /\ Alive /\ pc = "send_log"
    /\ IF build_log.exists
       THEN SendFile("build_log", "primary")
       ELSE Quiet
    /\ pc' = "cleanup"
    /\ UNCHANGED <<fixedVars, fileVars, upVars, statusVars, pollVars,
                   processVars, main>>

\* Lines 962-972.
Cleanup ==
    /\ Alive /\ pc = "cleanup"
    /\ temp_files' = RemoveTempFiles(temp_files, MainCleanup)
    /\ pc' = "poweroff"
    /\ Quiet
    /\ UNCHANGED <<fixedVars, build_log, out_dir, error_log, upVars,
                   statusVars, pollVars, processVars, main>>

\* Lines 975-983, and the end of main().
Poweroff ==
    /\ Alive /\ pc = "poweroff"
    /\ \E POWEROFF \in BOOLEAN : main' = [main EXCEPT !.shutdown = POWEROFF]
    /\ pc' = "done"
    /\ ProcessEnds(0)
    /\ Quiet
    /\ UNCHANGED <<fixedVars, fileVars, remote, statusVars, previous_progress,
                   build_process, sigints>>

\* ------------------------------------------------------------------------
\* The build child
\* ------------------------------------------------------------------------

LineH == <<"1","0","0","%"," ","9","/","9">>                \* 100% 9/9

\* The lines a build writes to the log, in this order.
BuildScript == <<LineA, LineB, LineH, LineC>>

\* The child writes its next line to BUILD_LOG.
ChildWrite ==
    /\ Alive /\ build_process.state = "running"
    /\ Len(build_log.lines) < MaxLog
    /\ Len(build_log.lines) < Len(BuildScript)
    /\ build_log' = [build_log EXCEPT !.lines = Append(@, BuildScript[Len(@) + 1])]
    /\ Quiet
    /\ UNCHANGED <<fixedVars, out_dir, error_log, upVars, quietVars>>

\* The child exits, with some exit code. What it left on disk (the error
\* log, the artifacts in OUT_DIR) is drawn where main() first looks at it.
ChildExit ==
    /\ Alive /\ build_process.state = "running"
    /\ \E rc \in {0, 1} :
          build_process' = [state |-> "exited", returncode |-> rc]
    /\ Quiet
    /\ UNCHANGED <<fixedVars, fileVars, upVars, pc, main, statusVars,
                   pollVars, exit_code, sigints>>

\* ------------------------------------------------------------------------
\* monitor_progress, the thread
\* ------------------------------------------------------------------------

\* Mutant of ProgressChanged: every poll counts as a change.
ProgressChangedAlways(current, previous) == TRUE

\* Line 416: `if current_progress != previous_progress`.
ProgressChanged(current, previous) == current # previous

\* One turn of the loop, lines 413-416: the loop test `while build_process
\* and build_process.poll() is None`, then the read of the log (which
\* main() created before the thread started) and the comparison; with
\* nothing changed the turn ends in the sleep of line 440.
MonitorPoll ==
    /\ Alive /\ monitor.pc = "poll"
    /\ IF build_process.state = "running"
       THEN LET current == fetch_progress(build_log, FALSE)
                changed == ProgressChanged(current, previous_progress)
            IN  monitor' = [pc |-> IF changed THEN "edit" ELSE "poll",
                            current_progress |-> current,
                            changed |-> changed]
       ELSE monitor' = MonitorEnded
    /\ Quiet
    /\ UNCHANGED <<fixedVars, fileVars, upVars, pc, main, statusVars,
                   previous_progress, processVars>>

\* Lines 417-440: the edit of the status message, then the new value is
\* recorded and the thread sleeps; a thread that wakes up with the child
\* gone ends at the loop test.
MonitorEdit ==
    /\ Alive /\ monitor.pc = "edit"
    /\ StatusEdit("progress", monitor.current_progress)
    /\ previous_progress' = monitor.current_progress
    /\ monitor' = IF build_process.state = "running"
                  THEN [monitor EXCEPT !.pc = "poll"]
                  ELSE MonitorEnded
    /\ UNCHANGED <<fixedVars, fileVars, upVars, pc, main, statusVars,
                   processVars>>

\* ------------------------------------------------------------------------
\* handle_interrupt
\* ------------------------------------------------------------------------

\* Where main() is inside a `try` with a bare `except:`, which catches the
\* SystemExit of sys.exit(130): always (the whole step is inside the try),
\* or for a part of the step.
SwallowsAlways(p) == p = "sync_run"

SwallowsSometimes(p) == p \in {"detect", "build_stats"}

\* Where main() goes on after the bare `except:`.
AfterSwallow(p) ==
    CASE p = "sync_run" -> "sync_except"
      [] p = "build_stats" -> "find_rom"
      [] OTHER -> p

\* Lines 594-622, run in the main thread when SIGINT arrives: the child is
\* terminated, the status message is edited, and sys.exit(130) raises
\* SystemExit at the point main() had reached.
HandleInterrupt ==
    /\ Alive /\ pc \notin {"idle", "init"}
    /\ sigints < MaxInterrupts
    /\ sigints' = sigints + 1
    /\ build_process' = IF build_process.state = "running"
                        THEN [state |-> "exited", returncode |-> -15]
                        ELSE build_process
    /\ IF build_message_id # NoneId
       THEN StatusEdit("interrupted", <<>>)
       ELSE Quiet
    /\ \E swallowed \in BOOLEAN :
          /\ swallowed => SwallowsAlways(pc) \/ SwallowsSometimes(pc)
          /\ ~swallowed => ~SwallowsAlways(pc)
          /\ pc' = IF swallowed THEN AfterSwallow(pc) ELSE pc
          /\ IF swallowed
             THEN UNCHANGED <<exit_code, up, monitor>>
             ELSE ProcessEnds(130)
    /\ temp_files' = RemoveTempFiles(IF pc = "banner" THEN Unfinished
                                     ELSE temp_files, HandlerCleanup)
    /\ UNCHANGED <<fixedVars, build_log, out_dir, error_log, remote, main,
                   statusVars, previous_progress>>

\* ------------------------------------------------------------------------
\* The run
\* ------------------------------------------------------------------------

Init ==
    /\ pc = "init"
    /\ main = MainIdle
    /\ build_message_id = NoneId
    /\ use_banner = FALSE
    /\ previous_progress = <<>>
    /\ build_process = NoProcess
    /\ monitor = MonitorIdle
    /\ call = NoNotify
    /\ exit_code = NotExited
    /\ sigints = 0
    /\ temp_files = NoTempFiles
    /\ error_log \in {"absent", "nonempty"}
    /\ build_log \in {AbsentLog, [exists |-> TRUE, lines |-> <<LineA>>]}
    /\ out_dir = {}
    /\ RCLONE_REMOTE \in {<<>>, RemoteName}
    /\ remote = {}
    /\ up = UpIdle
    /\ fp = NoCall
    /\ frz = NoRomCall

MainStep ==
    \/ InstallHandler
    \/ DetectAndCleanup
    \/ SyncSend
    \/ SyncRun
    \/ SyncExcept
    \/ Clean
    \/ GenerateBanner
    \/ SendPhoto
    \/ SendText
    \/ StartBuild
    \/ WaitAndJoin
    \/ Judge
    \/ FailEdit
    \/ FailSendErrorLog
    \/ FailSendBuildLog
    \/ BuildStats
    \/ FindRom
    \/ UploadEdit
    \/ UploadRom
    \/ RomUploaded
    \/ BootCheck
    \/ BootLoop
    \/ ImgUploaded
    \/ SuccessEdit
    \/ SendLog
    \/ Cleanup
    \/ Poweroff

Next ==
    \/ MainStep
    \/ UploadStep
    \/ ChildWrite
    \/ ChildExit
    \/ MonitorPoll
    \/ MonitorEdit
    \/ HandleInterrupt

Spec == Init /\ [][Next]_vars

\* A run no SIGINT arrives in. The main thread and the monitor thread go on
\* running as long as they have a step to take; the child may run for ever.
NextUninterrupted ==
    \/ MainStep
    \/ UploadStep
    \/ ChildWrite
    \/ ChildExit
    \/ MonitorPoll
    \/ MonitorEdit

SpecUninterrupted ==
    /\ Init
    /\ [][NextUninterrupted]_vars
    /\ WF_vars(MainStep \/ UploadStep)
    /\ WF_vars(MonitorPoll \/ MonitorEdit)

\* ------------------------------------------------------------------------
\* The monitor thread beside a build that writes three progress lines
\* ------------------------------------------------------------------------

\* "10% 100/1000", "55% 550/1000", "100% 1000/1000".
ScenarioLines ==
    << <<"1","0","%"," ","1","0","0","/","1","0","0","0">>,
       <<"5","5","%"," ","5","5","0","/","1","0","0","0">>,
       <<"1","0","0","%"," ","1","0","0","0","/","1","0","0","0">> >>

\* The child writes the next of the three lines to BUILD_LOG.
ScenarioWrite ==
    /\ Alive /\ build_process.state = "running"
    /\ Len(build_log.lines) < Len(ScenarioLines)
    /\ build_log' =
          [build_log EXCEPT !.lines = Append(@, ScenarioLines[Len(@) + 1])]
    /\ Quiet
    /\ UNCHANGED <<fixedVars, out_dir, error_log, upVars, quietVars>>

\* main() has started the child and the monitor thread (line 814) and
\* waits; the status message is a photo, a text message, or was refused.
InitScenario ==
    /\ pc = "wait"
    /\ \E banner \in BOOLEAN, photo_ok \in BOOLEAN, text_ok \in BOOLEAN :
          /\ main = [MainIdle EXCEPT !.banner_file = banner]
          /\ temp_files = IF banner THEN Finished ELSE Unfinished
          /\ use_banner = (banner /\ photo_ok)
          /\ build_message_id =
                IF banner /\ photo_ok THEN MsgIds.send_photo
                ELSE IF text_ok THEN MsgIds.send_message
                ELSE NoneId
    /\ previous_progress = <<>>
    /\ build_process = [state |-> "running", returncode |-> 0]
    /\ monitor = [MonitorIdle EXCEPT !.pc = "poll"]
    /\ call = NoNotify
    /\ exit_code = NotExited
    /\ sigints = 0
    /\ error_log = "absent"
    /\ build_log = [exists |-> TRUE, lines |-> <<>>]
    /\ out_dir = {}
    /\ RCLONE_REMOTE \in {<<>>, RemoteName}
    /\ remote = {}
    /\ up = UpIdle
    /\ fp = NoCall
    /\ frz = NoRomCall

NextScenario ==
    \/ ScenarioWrite
    \/ ChildExit
    \/ MonitorPoll
    \/ MonitorEdit

SpecScenario == InitScenario /\ [][NextScenario]_vars

\* ------------------------------------------------------------------------
\* Claims about upload_file and upload_rclone (checked under SpecUpload)
\* ------------------------------------------------------------------------

Attempted(backend) == \E i \in 1..Len(up.trace) : up.trace[i] = backend

Attempts(backend) == Cardinality({i \in 1..Len(up.trace) : up.trace[i] = backend})

Configured == RCLONE_REMOTE # <<>>

\* C1: with a remote target configured and a transfer that exited 0, the
\* public host is never attempted and upload_file returns the shareable
\* link or the raw remote path, whatever `rclone link` did.
C1_RemoteResultAfterTransfer ==
    (Configured /\ up.copy = "ok") =>
        /\ ~Attempted("gofile")
        /\ up.pc = "returned" =>
              up.result \in {LinkUrl, RcloneFilePath(RCLONE_REMOTE, up.file_name)}

\* C2: the remote attempt, when configured, comes before any public-host
\* attempt; the public host is attempted only when no remote is configured
\* or upload_rclone reported failure (returned None); a successful
\* public-host upload is what upload_file then returns; no backend is
\* attempted twice.
C2_PolicyOrder ==
    /\ Attempted("gofile") /\ Configured => up.trace = <<"rclone", "gofile">>
    /\ Attempted("gofile") => (~Configured \/ up.url = None)
    /\ (up.pc = "returned" /\ up.gofile = "ok") => up.result = GofileUrl
    /\ Attempts("rclone") <= 1 /\ Attempts("gofile") <= 1

ExpectedStem(name) == IF name = FileX THEN <<"x">> ELSE <<"r">>

ExpectedExt(name) == IF name = FileX THEN <<".","z","i","p">> ELSE <<>>

ExpectedVersion(name, v) ==
    IF v = 0 THEN name
    ELSE ExpectedStem(name) \o <<" ", "(", DigitChars[v + 1], ")">> \o ExpectedExt(name)

\* C7: the listing is asked for `x.ext`, `x (1).ext`, `x (2).ext`, ... in
\* this order; every name before the last one asked for was reported as
\* present; the name kept is the first of the sequence that the remote
\* does not hold, and the name handed to the transfer is that name, never
\* one reported as present.
C7_CollisionAvoidance ==
    /\ \A i \in 1..Len(up.tried) : up.tried[i] = ExpectedVersion(up.file_path, i - 1)
    /\ up.pc = "rc_lsf" => up.reported = {up.tried[i] : i \in 1..Len(up.tried)}
    /\ up.pc \in {"rc_dup", "rc_copy"} =>
          /\ up.file_name = ExpectedVersion(up.file_path, up.version)
          /\ up.tried[Len(up.tried)] = up.file_name
          /\ up.file_name \notin remote
          /\ \A v \in 0..(up.version - 1) : ExpectedVersion(up.file_path, v) \in remote
    /\ up.sent # None =>
          /\ up.sent = up.tried[Len(up.tried)]
          /\ up.sent \notin up.reported
          /\ up.reported = {up.tried[i] : i \in 1..(Len(up.tried) - 1)}

\* C7 witness: `x.zip` and `x (1).zip` are on the remote, both were asked
\* for in turn, and `x (2).zip` was handed to the transfer.
C7_Witness ==
    /\ up.file_path = FileX
    /\ up.tried = <<FileX, <<"x"," ","(","1",")",".","z","i","p">>,
                    <<"x"," ","(","2",")",".","z","i","p">> >>
    /\ up.sent = <<"x"," ","(","2",")",".","z","i","p">>
    /\ up.copy = "ok"

\* ------------------------------------------------------------------------
\* The progress extractor applied to any build log
\* ------------------------------------------------------------------------

InitProgress ==
    /\ build_log \in LogFiles
    /\ fp = NoCall
    /\ out_dir = {}
    /\ frz = NoRomCall
    /\ UploadIdle
    /\ RunIdle

FetchProgressCall ==
    /\ ~fp.called
    /\ \E readFails \in BOOLEAN :
          fp' = [called |-> TRUE, readFails |-> readFails,
                 result |-> fetch_progress(build_log, readFails)]
    /\ UNCHANGED <<build_log, out_dir, frz, RCLONE_REMOTE, remote, up, runVars>>

NextProgress == FetchProgressCall

SpecProgress == InitProgress /\ [][NextProgress]_vars

\* ------------------------------------------------------------------------
\* Claims about fetch_progress (checked under SpecProgress)
\* ------------------------------------------------------------------------

\* The lines of LogLines that hold "<percent>% <done>/<total>", with the
\* snapshot "<percent>% (<done>/<total>)" each one stands for, written out.
ProgressLines == {LineA, LineB, LineF}

ExpectedSnapshot(line) ==
    CASE line = LineA -> <<"1","0","%"," ","(","1","/","2",")">>
      [] line = LineB -> <<"5","5","%"," ","(","5","/","9",")">>
      [] line = LineF -> <<"1","%"," ","(","1","/","2",")">>

HasProgress(log) ==
    log.exists /\ \E i \in 1..Len(log.lines) : log.lines[i] \in ProgressLines

LastProgressIndex(log) ==
    CHOOSE i \in 1..Len(log.lines) :
        /\ log.lines[i] \in ProgressLines
        /\ \A h \in (i + 1)..Len(log.lines) : log.lines[h] \notin ProgressLines

\* C4: when the log that fetch_progress read holds one or more progress
\* lines, the result is the snapshot of the last of them, whatever lines
\* without progress follow it.
C4_LastMatchingLine ==
    (fp.called /\ ~fp.readFails /\ HasProgress(build_log)) =>
        fp.result = ExpectedSnapshot(build_log.lines[LastProgressIndex(build_log)])

\* C4 witness: two different progress lines, the later one followed by a
\* line without progress, and the later one's snapshot returned.
C4_Witness ==
    /\ fp.called /\ ~fp.readFails /\ build_log.exists
    /\ build_log.lines = <<LineA, LineB, LineC>>
    /\ fp.result = ExpectedSnapshot(LineB)

NoProgress(log) ==
    \/ ~log.exists
    \/ \A i \in 1..Len(log.lines) : log.lines[i] \notin ProgressLines

RomNames ==
    {NameAxionA, NameLineageA, NameLineageB, NameLineageOta, NameArrowImg,
     NameVoltageA, NameEvolutionA, NameOther}

\* Sizes around the 500 MB threshold.
RomSizes == {MinRomSize - 1, MinRomSize, MinRomSize + 1}

MTimes == 1..MaxMTime

\* Directories of at most `n` files, no two of one name.
Directories(n) ==
    UNION {
        {{[name |-> f, size |-> a[f][1], mtime |-> a[f][2]] : f \in N} :
            a \in [N -> RomSizes \X MTimes]} :
        N \in {M \in SUBSET RomNames : Cardinality(M) <= n}}

InitRom ==
    /\ out_dir \in Directories(MaxFiles)
    /\ frz = NoRomCall
    /\ build_log = AbsentLog
    /\ fp = NoCall
    /\ UploadIdle
    /\ RunIdle

FindRomZipCall ==
    /\ ~frz.called
    /\ \E r \in find_rom_zip(out_dir) : frz' = [called |-> TRUE, result |-> r]
    /\ UNCHANGED <<build_log, fp, out_dir, RCLONE_REMOTE, remote, up, runVars>>

NextRom == FindRomZipCall

SpecRom == InitRom /\ [][NextRom]_vars

\* ------------------------------------------------------------------------
\* Claims about find_rom_zip (checked under SpecRom)
\* ------------------------------------------------------------------------

\* The candidates the claim leaves in: a recognized ROM name (one of the
\* five prefixes, ending in .zip), no "ota" or "img" in the name in any
\* case, more than 500 MB.
IsRomName(name) ==
    \E k \in 1..Len(rom_patterns) : GlobMatch(rom_patterns[k], name)

Remaining(files) ==
    {f \in files :
        /\ IsRomName(f.name)
        /\ ~Contains(Lower(f.name), <<"o","t","a">>)
        /\ ~Contains(Lower(f.name), <<"i","m","g">>)
        /\ f.size > MinRomSize}

\* C8: find_rom_zip returns no result only when no candidate remains, and
\* otherwise returns a remaining candidate that no remaining candidate, of
\* any pattern, is newer than.
C8_NewestOfAll ==
    frz.called =>
        IF Remaining(out_dir) = {} THEN frz.result = None
        ELSE \E f \in Remaining(out_dir) :
                /\ frz.result = f.name
                /\ \A g \in Remaining(out_dir) : g.mtime <= f.mtime

\* ------------------------------------------------------------------------
\* Claims about the run (checked under Spec)
\* ------------------------------------------------------------------------

\* The step issues a progress edit.
ProgressEdit == call'.what = "progress"

\* C6: the monitor issues an edit only with a progress string that differs
\* from the one it recorded last, and records the string it posts; a poll
\* that extracts the recorded string leads to no edit, so two consecutive
\* polls extracting the same string cause at most one call.
C6_EditOnlyOnChange ==
    [][/\ ProgressEdit =>
            /\ call'.text = monitor.current_progress
            /\ call'.text # previous_progress
            /\ previous_progress' = call'.text
       /\ monitor'.pc = "edit" /\ monitor.pc = "poll" =>
            monitor'.current_progress # previous_progress]_vars

\* A poll has extracted the string of the last update, and no edit follows.
C6_Witness ==
    /\ monitor.pc = "poll"
    /\ ~monitor.changed
    /\ previous_progress # <<>>
    /\ monitor.current_progress = previous_progress
    /\ build_process.state = "running"
    /\ call = NoNotify

FailurePath == pc \in {"fail_edit", "fail_send_err", "fail_send_log"}

SuccessPath ==
    pc \in {"build_stats", "find_rom", "returned", "upload_edit", "upload_rom",
            "uploading_rom", "boot_check", "boot_loop", "uploading_img",
            "success_edit", "send_log"}

\* C9: after the child's exit the run is on the failure path exactly when
\* the error log exists and is not empty, whatever the child's exit code;
\* a failure is reported only with such a log, a success only without.
C9_JudgedByErrorLog ==
    /\ FailurePath => error_log = "nonempty"
    /\ SuccessPath => error_log # "nonempty"
    /\ call.what = "failed" => error_log = "nonempty"
    /\ call.what \in {"uploading", "uploading_boot", "success"} =>
          error_log # "nonempty"

\* The failure is reported for a child that exited with 0.
C9_Witness ==
    /\ call.what = "failed"
    /\ build_process.returncode = 0
    /\ error_log = "nonempty"

StatusChanges ==
    {"progress", "uploading", "uploading_boot", "failed", "success", "interrupted"}

\* The step creates a status message: a send of the build status that
\* returned an identifier.
CreatesStatusMessage ==
    /\ call'.op \in {"send_photo", "send_message"}
    /\ call'.what = "building"
    /\ call'.id # NoneId

\* C10: a status message is created only while none exists, and by
\* send_photo or send_message only; every status change is an edit of the
\* message build_message_id names, never a send.
C10_OneStatusMessage ==
    /\ [](call.what \in StatusChanges =>
             /\ call.op \in {"edit_message", "edit_photo_caption"}
             /\ call.id = build_message_id)
    /\ [](call.what = "building" => call.op \in {"send_photo", "send_message"})
    /\ [][CreatesStatusMessage =>
             /\ build_message_id = NoneId
             /\ build_message_id' = call'.id]_vars

\* The photo was not accepted, the text message was, and that message is
\* edited after the build.
C10_Witness ==
    /\ main.banner_file
    /\ ~use_banner
    /\ build_message_id # NoneId
    /\ call.what = "success"
    /\ call.op = "edit_message"
    /\ call.id = build_message_id

\* ------------------------------------------------------------------------
\* Claims about a run without SIGINT (checked under SpecUninterrupted)
\* ------------------------------------------------------------------------

AfterWait ==
    pc \in {"judge", "fail_edit", "fail_send_err", "fail_send_log", "build_stats",
            "find_rom", "returned", "upload_edit", "upload_rom", "uploading_rom",
            "boot_check", "boot_loop", "uploading_img", "success_edit",
            "send_log", "cleanup", "poweroff", "done"}

\* C11: whatever the notifier calls return, the run starts the build child,
\* goes past the wait to the judgement of the build only when the child has
\* exited, and once the child has exited reaches the end of the run with
\* exit code 0; no notifier call ends the process.
C11_NotifierNeverFatal ==
    /\ <>(build_process.state # "none")
    /\ [](AfterWait => build_process.state = "exited")
    /\ (build_process.state = "exited") ~> (pc \in {"done", "returned"} /\ exit_code = 0)
    /\ [](exit_code \in {NotExited, 0})

\* The photo and the text message were both refused, every status edit went
\* out without an identifier, and the run has ended.
C11_Witness ==
    /\ main.banner_file
    /\ build_message_id = NoneId
    /\ pc = "done"
    /\ exit_code = 0
    /\ error_log = "nonempty"

\* ------------------------------------------------------------------------
\* Claims about SIGINT (checked under Spec)
\* ------------------------------------------------------------------------

\* C12: once handle_interrupt has run, the process has ended with exit code
\* 130, the child is not running, and main() stays where the signal found
\* it.
C12_InterruptEndsRun ==
    sigints > 0 =>
        /\ exit_code = 130
        /\ build_process.state # "running"

\* ------------------------------------------------------------------------
\* Claims about the three-line scenario (checked under SpecScenario)
\* ------------------------------------------------------------------------

\* "10% (100/1000)", "55% (550/1000)", "100% (1000/1000)".
ScenarioUpdates ==
    << <<"1","0","%"," ","(","1","0","0","/","1","0","0","0",")">>,
       <<"5","5","%"," ","(","5","5","0","/","1","0","0","0",")">>,
       <<"1","0","0","%"," ","(","1","0","0","0","/","1","0","0","0",")">> >>

\* C13: the updates of the scenario are exactly the three snapshots in
\* order: every update the monitor is about to post is the snapshot that
\* follows the one it posted last (the first one after none), no other
\* text is posted, and when the thread has ended beside a log holding the
\* three lines the last one posted is that of 100%.
C13_ThreeUpdatesInOrder ==
    /\ monitor.pc = "edit" =>
          \/ previous_progress = <<>> /\ monitor.current_progress = ScenarioUpdates[1]
          \/ \E k \in 1..2 : /\ previous_progress = ScenarioUpdates[k]
                             /\ monitor.current_progress = ScenarioUpdates[k + 1]
    /\ call.what = "progress" =>
          \E k \in 1..3 : call.text = ScenarioUpdates[k]
    /\ (monitor.pc = "done" /\ build_log.lines = ScenarioLines) =>
          previous_progress = ScenarioUpdates[3]

\* ------------------------------------------------------------------------
\* Claims about the generated images (checked under Spec)
\* ------------------------------------------------------------------------

\* C14: when handle_interrupt has run and ended the process, none of the
\* images generate_build_banner creates is left in ROOT_DIRECTORY.
C14_NoImageAfterHandler ==
    exit_code = 130 => \A files \in temp_files : files = {}

\* ------------------------------------------------------------------------
\* Claims about the end of the run (checked under Spec)
\* ------------------------------------------------------------------------

\* C15: on a build judged failed main() edits the status message to the
\* failure notification, then sends the error log and then the build log
\* with send_file to the error chat; the error log goes to no other chat,
\* and the run never reaches ROM discovery, an upload, or an "uploading" or
\* "success" edit.
C15_FailureForwarded ==
    /\ [][/\ (pc = "fail_edit" /\ pc' # pc) =>
               /\ call'.what = "failed"
               /\ call'.op \in {"edit_message", "edit_photo_caption"}
               /\ pc' = "fail_send_err"
          /\ (pc = "fail_send_err" /\ pc' # pc) =>
               /\ call'.what = "error_log"
               /\ call'.op = "send_file"
               /\ call'.chat = "error"
               /\ pc' = "fail_send_log"
          /\ (pc = "fail_send_log" /\ pc' # pc) =>
               /\ call'.what = "build_log"
               /\ call'.op = "send_file"
               /\ call'.chat = "error"
               /\ pc' = "cleanup"]_vars
    /\ [](call.what = "error_log" => call.chat = "error")
    /\ []((error_log = "nonempty" /\ AfterWait /\ pc # "judge") =>
             /\ pc \in {"fail_edit", "fail_send_err", "fail_send_log", "cleanup",
                        "poweroff", "done"}
             /\ main.rom_zip = None
             /\ up = UpIdle
             /\ ~frz.called
             /\ call.what \notin {"uploading", "uploading_boot", "success"})

\* The build log of a failed build has just gone to the error chat.
C15_Witness ==
    /\ pc = "cleanup"
    /\ error_log = "nonempty"
    /\ call.op = "send_file"
    /\ call.what = "build_log"
    /\ call.chat = "error"

\* C16: without a qualifying ROM archive main() returns from line 872 and
\* the process ends with exit code 0: no step follows (no upload, no edit,
\* no send of the build log, no cleanup, no shutdown), the banner is still
\* in ROOT_DIRECTORY when no handler removed it, and the "uploading" and
\* "success" edits, the send of the build log to the primary chat and the
\* uploads are made only with a ROM archive found.
C16_AbortWithoutRom ==
    /\ [](pc = "returned" =>
             /\ exit_code = 0
             /\ error_log # "nonempty"
             /\ None \in find_rom_zip(out_dir)
             /\ main.rom_zip = None
             /\ up = UpIdle
             /\ call = NoNotify
             /\ ~main.shutdown
             /\ (main.banner_file /\ sigints = 0) => temp_files = Finished)
    /\ [][pc # "returned"]_vars
    /\ []((\/ call.what \in {"uploading", "uploading_boot", "success"}
           \/ call.what = "build_log" /\ call.chat = "primary"
           \/ up # UpIdle
           \/ pc \in {"upload_edit", "upload_rom", "uploading_rom", "boot_check",
                      "boot_loop", "uploading_img", "success_edit", "send_log"})
             => /\ main.rom_zip # None
                /\ \E f \in out_dir : f.name = main.rom_zip /\ f.size > MinRomSize)
    /\ [][(pc' = "cleanup" /\ pc # "cleanup") =>
             pc \in {"send_log", "fail_send_log"}]_vars

\* main() has returned without a ROM archive, the status message exists
\* and the banner is still on disk.
C16_Witness ==
    /\ pc = "returned"
    /\ exit_code = 0
    /\ build_message_id # NoneId
    /\ main.banner_file
    /\ temp_files = Finished
    /\ build_process.state = "exited"

\* ------------------------------------------------------------------------
\* Claims about the messages that are edited (checked under Spec)
\* ------------------------------------------------------------------------

\* C17: every call of edit_message or edit_photo_caption names a message
\* identifier that a send of this run returned, never None.
C17_EditsTargetSentId ==
    call.op \in {"edit_message", "edit_photo_caption"} =>
        /\ call.id # NoneId
        /\ \E kind \in DOMAIN MsgIds : call.id = MsgIds[kind]

\* ------------------------------------------------------------------------
\* Claims about the local duplicate (checked under SpecUpload)
\* ------------------------------------------------------------------------

\* C18: the local file handed to upload_rclone stays in its directory as it
\* was, and once upload_rclone is past the transfer (it fetches the link,
\* or has returned by any path) the directory holds no duplicate under the
\* versioned name.
C18_DuplicateRemoved ==
    up.pc # "idle" =>
        /\ [name |-> up.file_path, size |-> MinRomSize + 1, mtime |-> 1] \in out_dir
        /\ up.pc \in {"rc_link", "rc_done", "gofile", "returned"} =>
              \A f \in out_dir : f.name = up.file_path

\* ------------------------------------------------------------------------
\* Claims about the poller after the build (checked under Spec)
\* ------------------------------------------------------------------------

\* main() has made a post-build status edit (failed, uploading, success).
PostBuildStatusPosted ==
    pc \in {"fail_send_err", "fail_send_log", "upload_rom", "uploading_rom",
            "boot_check", "boot_loop", "uploading_img", "success_edit",
            "send_log", "cleanup", "poweroff", "done"}

\* C19: once main() has made a post-build status edit, the monitor thread
\* makes no progress edit.
C19_NoProgressAfterTerminal ==
    PostBuildStatusPosted => call.what # "progress"

=============================================================================
